---------------------------- MODULE Spec2Model ----------------------------
(***************************************************************************)
(* Audio visualizer plugin (plugins/audio-visualizer-luna/src/index.ts):   *)
(* the audio-acquisition state machine, the render loop and the polling    *)
(* lifecycle controller, as a state machine over the module's globals, the *)
(* observePlayState closure, the host's timers / animation frames and the  *)
(* parts of the page the plugin reads (media elements, search field).      *)
(*                                                                         *)
(* Every program function is an operator from a state record to a state    *)
(* record; an action is one task of the UI thread (a timer callback, an    *)
(* animation-frame callback, the settings hook, the unload) run to         *)
(* completion, followed by the promise reactions it queued.                *)
(***************************************************************************)
EXTENDS Integers, Sequences, FiniteSets

VARIABLES
    \* module globals (index.ts 44-55)
    audioContext, analyser, audioSource, dataArray, animationId,
    currentAudioElement, isSourceConnected,
    visualizerContainer, canvas, canvasContext,
    \* observePlayState closure (index.ts 471-472, 502, 507)
    hasTriedInitialization, checkCount, fastInterval, slowInterval,
    \* host runtime: the startup timeout, the number of requested animation
    \* frames not yet run or cancelled, the unload set, the number of visualizer
    \* containers attached to the document
    timeoutPending, pendingFrames, unloads, unloaded, surfacesInDom,
    \* environment: PlayState.playing, media elements in document order,
    \* presence of the search field and its parent, settings.barCount
    playing, media, anchor, barCount,
    \* history: what the last step's poll check observed, its acquisition call
    \* and its frame; acquisition calls since the last check that saw
    \* not-playing; objects created over the run; the last step's removals and
    \* insertions of a visualizer container, in order
    obs, acq, frame, episodeAttempts,
    ctxCreated, analyserCreated, slowCreated, surfaceOps

vars == << audioContext, analyser, audioSource, dataArray, animationId,
           currentAudioElement, isSourceConnected,
           visualizerContainer, canvas, canvasContext,
           hasTriedInitialization, checkCount, fastInterval, slowInterval,
           timeoutPending, pendingFrames, unloads, unloaded, surfacesInDom,
           playing, media, anchor, barCount,
           obs, acq, frame, episodeAttempts,
           ctxCreated, analyserCreated, slowCreated, surfaceOps >>

Null == "null"

-----------------------------------------------------------------------------
\* Program constants

\* analyser.fftSize = 512
FftSize == 512

\* analyser.frequencyBinCount = fftSize / 2, the length of dataArray
Bins == FftSize \div 2

\* hasRealAudio = avgVolume > 5
SilenceThreshold == 5

\* if (checkCount > 10) switch to the slow interval
FastChecks == 10

\* config.width, the width of the canvas in pixels
CanvasWidth == 200

\* config.height, the height of the canvas in pixels
CanvasHeight == 40

\* heightScale = canvas.height / 255: the largest byte magnitude
ByteMax == 255

\* barHeight = ... + 2: the minimum height of an idle-wave bar in pixels
MinWaveHeight == 2

-----------------------------------------------------------------------------
\* Bounds of the model

\* checkCount is stored up to this value (at least FastChecks + 1): the code
\* reads it only in the fast interval's callback, where it is at most FastChecks + 1
MaxCheckCount == 11

\* episodeAttempts (a history counter) is stored up to this value
MaxAttempts == 2

\* The values of Math.sin are drawn from the grid -1, ..., -1/SineSteps, 0,
\* 1/SineSteps, ..., 1
SineSteps == 1

-----------------------------------------------------------------------------
\* The page

\* The media elements the page may hold
ElementInfo ==
    [ a1 |-> [tag |-> "AUDIO", src |-> TRUE,  dataTest |-> FALSE, inPlayer |-> FALSE],
      v1 |-> [tag |-> "VIDEO", src |-> TRUE,  dataTest |-> FALSE, inPlayer |-> FALSE] ]

Elements == DOMAIN ElementInfo

\* Documents: the media elements in document order
MediaStates == { << >>, << "a1" >>, << "v1" >>, << "v1", "a1" >> }

\* settings.barCount (an integer >= 1)
BarCounts == {3}

\* settings.barCount in the render specification: one bar, a count that does
\* not divide the width, divisors of the width up to the width itself, a count
\* for which the double product 49 * (256 / 98) is below 128, the number of
\* bins, and more bars than bins
RenderBarCounts == {1, 3, 8, 50, 98, 200, 256, 300}

Selectors == << "audio", "video", "audio[data-test]", "[data-test=audio-player] audio" >>

Matches(e, selector) ==
    CASE selector = "audio" -> ElementInfo[e].tag = "AUDIO"
      [] selector = "video" -> ElementInfo[e].tag = "VIDEO"
      [] selector = "audio[data-test]" ->
            ElementInfo[e].tag = "AUDIO" /\ ElementInfo[e].dataTest
      [] OTHER -> ElementInfo[e].tag = "AUDIO" /\ ElementInfo[e].inPlayer

\* document.querySelector: the first element in document order that matches
querySelector(m, selector) ==
    LET hits == { i \in DOMAIN m : Matches(m[i], selector) }
    IN  IF hits = {} THEN Null
        ELSE m[CHOOSE i \in hits : \A j \in hits : i <= j]

\* findAudioElement: the selectors in order, then a scan for an element with a source
findAudioElement(m) ==
    LET found == { k \in DOMAIN Selectors :
                     LET el == querySelector(m, Selectors[k])
                     IN  el # Null /\ ElementInfo[el].tag \in {"AUDIO", "VIDEO"} }
        withSrc == { i \in DOMAIN m : ElementInfo[m[i]].src }
    IN  IF found # {}
        THEN querySelector(m, Selectors[CHOOSE k \in found : \A j \in found : k <= j])
        ELSE IF withSrc # {}
             THEN m[CHOOSE i \in withSrc : \A j \in withSrc : i <= j]
             ELSE Null

-----------------------------------------------------------------------------
\* Frequency snapshots: Bins byte magnitudes

\* The first k bins hold hi, the others lo
StepSnapshot(k, hi, lo) == [ i \in 0..(Bins - 1) |-> IF i < k THEN hi ELSE lo ]

\* dataArray = null: the array with no bins
NullArray == << >>

\* new Uint8Array(analyser.frequencyBinCount)
ZeroSnapshot == StepSnapshot(0, 0, 0)

\* What getByteFrequencyData may write: silence, a mean of exactly the threshold,
\* the smallest sum above it, and loud signal
Snapshots ==
    { ZeroSnapshot,
      StepSnapshot(0, 0, SilenceThreshold),
      StepSnapshot(1, SilenceThreshold + 1, SilenceThreshold),
      StepSnapshot(0, 0, 200) }

\* dataArray.reduce((sum, val) => sum + val, 0): the sum of the bins lo..hi-1,
\* added up by halves
RECURSIVE ReduceSum(_, _, _)
ReduceSum(a, lo, hi) ==
    IF hi <= lo THEN 0
    ELSE IF hi = lo + 1 THEN a[lo]
    ELSE LET mid == (lo + hi) \div 2
         IN  ReduceSum(a, lo, mid) + ReduceSum(a, mid, hi)

\* What getByteFrequencyData may write in the render specification: every byte
\* magnitude in the lower half of the bins, next to a loud upper half
RenderSnapshots == { StepSnapshot(Bins \div 2, b, 200) : b \in 0..ByteMax }

\* The sums of the snapshots the analyser may report
SnapshotSum == [ a \in Snapshots \cup RenderSnapshots |-> ReduceSum(a, 0, Bins) ]


hasRealAudioOf_Inclusive(a) == SnapshotSum[a] >= SilenceThreshold * Bins

\* avgVolume > 5, with avgVolume = sum / dataArray.length: the quotient is not
\* rounded, so the comparison is sum > 5 * length
hasRealAudioOf(a) == SnapshotSum[a] > SilenceThreshold * Bins

-----------------------------------------------------------------------------
\* Numbers: the draw routines compute with JavaScript numbers; here every
\* value is the exact rational num / den (den > 0, in lowest terms). The
\* rounding of doubles, a relative error of 2^-53 per operation, is modelled
\* where it can change a result by more than that: at Math.floor

RECURSIVE Gcd(_, _)
Gcd(a, b) == IF b = 0 THEN a ELSE Gcd(b, a % b)

Rat(n, d) ==
    LET g == Gcd(IF n < 0 THEN -n ELSE n, d)
    IN  [num |-> n \div g, den |-> d \div g]

Whole(n) == [num |-> n, den |-> 1]

RatAdd(p, q) == Rat(p.num * q.den + q.num * p.den, p.den * q.den)

RatSub(p, q) == Rat(p.num * q.den - q.num * p.den, p.den * q.den)

RatMul(p, q) == Rat(p.num * q.num, p.den * q.den)

RatLeq(p, q) == p.num * q.den <= q.num * p.den

RatLess(p, q) == p.num * q.den < q.num * p.den

\* Math.floor
Floor(p) == p.num \div p.den

\* A quotient of integers is a double without rounding when its denominator is
\* a power of two
RECURSIVE PowerOfTwo(_)
PowerOfTwo(d) == d = 1 \/ (d % 2 = 0 /\ PowerOfTwo(d \div 2))

\* config.sensitivity = 1.5
Sensitivity == Rat(3, 2)

\* The values Math.sin may return: the grid points of [-1, 1]
SineValues == { Rat(a, SineSteps) : a \in (-SineSteps)..SineSteps }

\* The four sines of an idle-wave bar (index.ts 326-328, 334). Each bar's height
\* is the same function of its own four sines; a frame is given one tuple for
\* all its bars
SineTuples == [ 1..4 -> SineValues ]

\* The phase at which all four sines are 0
RestSines == [ k \in 1..4 |-> Whole(0) ]

-----------------------------------------------------------------------------
\* The state as a record, so that the program's functions compose. threw and
\* thenQueued live only within one task: an exception propagating out of the
\* function just run, and the queued reaction of initializeAudioVisualizer().then

Cur ==
    [ audioContext |-> audioContext, analyser |-> analyser,
      audioSource |-> audioSource, dataArray |-> dataArray, animationId |-> animationId,
      currentAudioElement |-> currentAudioElement, isSourceConnected |-> isSourceConnected,
      visualizerContainer |-> visualizerContainer, canvas |-> canvas,
      canvasContext |-> canvasContext,
      hasTriedInitialization |-> hasTriedInitialization, checkCount |-> checkCount,
      fastInterval |-> fastInterval, slowInterval |-> slowInterval,
      timeoutPending |-> timeoutPending, pendingFrames |-> pendingFrames,
      unloads |-> unloads, unloaded |-> unloaded, surfacesInDom |-> surfacesInDom,
      playing |-> playing, media |-> media, anchor |-> anchor, barCount |-> barCount,
      obs |-> obs, acq |-> acq, frame |-> frame,
      episodeAttempts |-> episodeAttempts,
      ctxCreated |-> ctxCreated, analyserCreated |-> analyserCreated,
      slowCreated |-> slowCreated, surfaceOps |-> surfaceOps,
      threw |-> FALSE, thenQueued |-> FALSE ]

Commit(s) ==
    /\ audioContext' = s.audioContext
    /\ analyser' = s.analyser
    /\ audioSource' = s.audioSource
    /\ dataArray' = s.dataArray
    /\ animationId' = s.animationId
    /\ currentAudioElement' = s.currentAudioElement
    /\ isSourceConnected' = s.isSourceConnected
    /\ visualizerContainer' = s.visualizerContainer
    /\ canvas' = s.canvas
    /\ canvasContext' = s.canvasContext
    /\ hasTriedInitialization' = s.hasTriedInitialization
    /\ checkCount' = s.checkCount
    /\ fastInterval' = s.fastInterval
    /\ slowInterval' = s.slowInterval
    /\ timeoutPending' = s.timeoutPending
    /\ pendingFrames' = s.pendingFrames
    /\ unloads' = s.unloads
    /\ unloaded' = s.unloaded
    /\ surfacesInDom' = s.surfacesInDom
    /\ playing' = s.playing
    /\ media' = s.media
    /\ anchor' = s.anchor
    /\ barCount' = s.barCount
    /\ obs' = s.obs
    /\ acq' = s.acq
    /\ frame' = s.frame
    /\ episodeAttempts' = s.episodeAttempts
    /\ ctxCreated' = s.ctxCreated
    /\ analyserCreated' = s.analyserCreated
    /\ slowCreated' = s.slowCreated
    /\ surfaceOps' = s.surfaceOps

\* No acquisition call / no frame in the step
NoAcq == [outcome |-> "none", trace |-> << >>, effects |-> {}]
NoFrame == [branch |-> "none", calls |-> 0, rects |-> << >>]

\* The start of a task: the history of the last step is cleared
Begin == [Cur EXCEPT !.obs = "none", !.acq = NoAcq, !.frame = NoFrame, !.surfaceOps = << >>]

\* What one task meets: whether the direct tap works, whether stream capture
\* does, the magnitudes the analyser reports, and whether the frame's sampling
\* or drawing throws
TapResults == [ directOk : BOOLEAN, captureOk : BOOLEAN ]

\* (the lifecycle specification draws one phase of the idle wave and no
\* rounding below: BarCounts has no bar whose product is whole)
FrameResults ==
    [ snap : Snapshots, fault : BOOLEAN, sines : {RestSines}, roundDown : {FALSE} ]

\* What a frame meets in the render specification: every byte magnitude in a
\* loud snapshot, with either rounding of the bin products, and silence at
\* every phase of the idle wave
RenderFrameResults ==
    { [snap |-> a, fault |-> FALSE, sines |-> RestSines, roundDown |-> r] :
         a \in RenderSnapshots, r \in BOOLEAN }
      \cup { [snap |-> ZeroSnapshot, fault |-> FALSE, sines |-> q, roundDown |-> FALSE] :
                q \in SineTuples }

\* A frame samples only while an analyser is attached (index.ts 262-263): with
\* none, it draws no snapshot
RenderFrameInputs ==
    IF analyser = Null
    THEN { f \in RenderFrameResults : f.snap = ZeroSnapshot }
    ELSE RenderFrameResults

\* A tap is attempted only while no source is connected (index.ts 114), so a
\* task that starts connected draws no tap result
TapInputs == IF isSourceConnected THEN {[directOk |-> TRUE, captureOk |-> TRUE]} ELSE TapResults

\* A poll check calls animate only if it finds animationId null, at its own
\* test or in the acquisition it starts (index.ts 166, 496), and nothing else in
\* the task clears animationId: a check that starts with a handle stored draws
\* no frame result
CheckFrameInputs ==
    IF animationId # "null"
    THEN {[snap |-> ZeroSnapshot, fault |-> FALSE, sines |-> RestSines, roundDown |-> FALSE]}
    ELSE FrameResults

Inputs == { [tap |-> tr, fr |-> f] : tr \in TapInputs, f \in FrameResults }

CheckInputs == { [tap |-> tr, fr |-> f] : tr \in TapInputs, f \in CheckFrameInputs }

-----------------------------------------------------------------------------
\* The drawing surface

\* removeVisualizerUI (index.ts 240-247)
removeVisualizerUI(s) ==
    IF s.visualizerContainer # Null
    THEN [s EXCEPT !.surfacesInDom = @ - 1, !.surfaceOps = Append(@, "remove"),
                   !.visualizerContainer = Null, !.canvas = Null, !.canvasContext = Null]
    ELSE s

createVisualizerUI_NoRemove(s) ==
    IF ~s.anchor
    THEN s
    ELSE [s EXCEPT !.visualizerContainer = "div", !.canvas = "canvas",
                   !.canvasContext = "2d", !.surfacesInDom = @ + 1,
                   !.surfaceOps = Append(@, "create")]

\* createVisualizerUI (index.ts 176-237); config.enabled is the constant true
createVisualizerUI(s) ==
    LET r == removeVisualizerUI(s)
    IN  IF ~r.anchor
        THEN r
        ELSE [r EXCEPT !.visualizerContainer = "div", !.canvas = "canvas",
                       !.canvasContext = "2d", !.surfacesInDom = @ + 1,
                       !.surfaceOps = Append(@, "create")]

-----------------------------------------------------------------------------
\* The render loop

\* Animation-frame handles are unique, and the code only stores one, tests it
\* for null and cancels it: animationId is "null", "live" (the handle of a
\* requested frame that has not run and was not cancelled) or "stale" (the
\* handle of a frame that has run)

\* animationId = requestAnimationFrame(animate) (index.ts 291)
requestAnimationFrame(s) ==
    [s EXCEPT !.pendingFrames = @ + 1, !.animationId = "live"]

\* if (animationId) { cancelAnimationFrame(animationId); animationId = null }
\* (index.ts 458-461, 538-541)
cancelAnimation(s) ==
    IF s.animationId # "null"
    THEN [s EXCEPT !.pendingFrames = IF s.animationId = "live" THEN @ - 1 ELSE @,
                   !.animationId = "null"]
    ELSE s

barLoop_SkipsFirst(n) == [ k \in 1..(n - 1) |-> k ]

\* for (let i = 0; i < barCount; i++) (index.ts 323, 360): the values of i in order
barLoop(n) == [ k \in 1..n |-> k - 1 ]

barWidth_FourPixels(n) == Whole(4)

\* barWidth = canvas.width / barCount (index.ts 318, 355); the canvas is
\* created CanvasWidth wide (214) and keeps that width (442)
barWidth(n) == Rat(CanvasWidth, n)

dataIndex_Rounded(i, length, n, roundDown) ==
    Floor(RatAdd(RatMul(Whole(i), Rat(length, n)), Rat(1, 2)))

\* dataIndex = Math.floor(i * (dataArray.length / config.barCount)) (index.ts 361).
\* The quotient is rounded to a double unless it is dyadic, and so is the
\* product: a product that is a whole number m >= 1 in exact arithmetic comes
\* out as m or just below m (roundDown), and the floor is m or m - 1; any other
\* product is further from a whole number than the rounding error
dataIndex(i, length, n, roundDown) ==
    LET ratio == Rat(length, n)
        product == RatMul(Whole(i), ratio)
    IN  IF roundDown /\ product.den = 1 /\ product.num >= 1 /\ ~PowerOfTwo(ratio.den)
        THEN product.num - 1
        ELSE Floor(product)

barHeight_NoHeightScale(value) == RatMul(Whole(value), Sensitivity)

\* barHeight = dataArray[dataIndex] * config.sensitivity * heightScale, with
\* heightScale = canvas.height / 255 (index.ts 356, 362)
barHeight(value) ==
    RatMul(RatMul(Whole(value), Sensitivity), Rat(CanvasHeight, ByteMax))

\* barHeight of drawScrollingWave (index.ts 319, 326-337): sines holds the
\* values of the four Math.sin calls in the order of the source
waveHeight(sines) ==
    LET maxHeight == RatMul(Whole(CanvasHeight), Rat(3, 5))
        wave1 == RatMul(sines[1], Rat(3, 10))
        wave2 == RatMul(sines[2], Rat(1, 5))
        wave3 == RatMul(sines[3], Rat(1, 10))
        combinedWave == RatMul(RatAdd(RatAdd(RatAdd(wave1, wave2), wave3), Whole(1)), Rat(1, 2))
        travelWave == RatAdd(RatMul(sines[4], Rat(1, 2)), Rat(1, 2))
    IN  RatAdd(RatMul(RatMul(RatMul(maxHeight, combinedWave), travelWave), Rat(4, 5)),
               Whole(MinWaveHeight))

\* The loop of drawScrollingWave (index.ts 317-348) for n bars: the draw calls
\* in order, (x, y, width, height) of fillRect or of roundRect. All bars are
\* given the same sines, so that their height is computed once
waveCalls(n, sines) ==
    LET loop == barLoop(n)
        width == barWidth(n)
        h == waveHeight(sines)
        yPos == RatMul(RatSub(Whole(CanvasHeight), h), Rat(1, 2))
        drawn == RatSub(width, Whole(1))
    IN  [ k \in DOMAIN loop |->
            [ i |-> loop[k],
              x |-> RatMul(Whole(loop[k]), width),
              y |-> yPos,
              width |-> drawn,
              height |-> h ] ]

\* The loop of drawBars (index.ts 355-373) over the snapshot a for n bars: the
\* draw calls in order, each with the bin it read
barCalls(a, n, roundDown) ==
    LET loop == barLoop(n)
        width == barWidth(n)
        drawn == RatSub(width, Whole(1))
    IN  [ k \in DOMAIN loop |->
            LET bin == dataIndex(loop[k], Bins, n, roundDown)
                h == barHeight(a[bin])
            IN  [ i |-> loop[k], dataIndex |-> bin,
                  x |-> RatMul(Whole(loop[k]), width),
                  y |-> RatSub(Whole(CanvasHeight), h),
                  width |-> drawn,
                  height |-> h ] ]

\* The two loops for the snapshots, bar counts, phase and rounding of the
\* lifecycle specification, computed once
WaveCallsAtRest == [ n \in BarCounts |-> waveCalls(n, RestSines) ]

BarCallsOf == [ a \in Snapshots, n \in BarCounts |-> barCalls(a, n, FALSE) ]

\* drawScrollingWave (index.ts 312-349)
drawScrollingWave(s, sines) ==
    IF s.canvasContext = Null \/ s.canvas = Null
    THEN << >>
    ELSE IF s.barCount \in BarCounts /\ sines = RestSines
         THEN WaveCallsAtRest[s.barCount]
         ELSE waveCalls(s.barCount, sines)

\* drawBars (index.ts 352-374)
drawBars(s, roundDown) ==
    IF s.canvasContext = Null \/ s.dataArray = NullArray \/ s.canvas = Null
    THEN << >>
    ELSE IF s.barCount \in BarCounts /\ s.dataArray \in Snapshots /\ ~roundDown
         THEN BarCallsOf[s.dataArray, s.barCount]
         ELSE barCalls(s.dataArray, s.barCount, roundDown)

\* animate (index.ts 250-292): f is what this frame's sampling and drawing meet
animate(s, f) ==
    IF s.canvasContext = Null \/ s.canvas = Null
    THEN [s EXCEPT !.animationId = "null",
                   !.frame = [branch |-> "noSurface", calls |-> 0, rects |-> << >>]]
    ELSE
      LET sampling == s.analyser # Null /\ s.dataArray # NullArray
          s1 == IF sampling THEN [s EXCEPT !.dataArray = f.snap] ELSE s
          hasRealAudio == sampling /\ hasRealAudioOf(s1.dataArray)
          bars == hasRealAudio /\ s1.analyser # Null /\ s1.dataArray # NullArray
          drawn(rects) == [branch |-> IF bars THEN "bars" ELSE "wave",
                           calls |-> Len(rects), rects |-> rects]
      IN  IF f.fault
          THEN [s1 EXCEPT !.threw = TRUE,
                          !.frame = [branch |-> "threw", calls |-> 0, rects |-> << >>]]
          ELSE requestAnimationFrame(
                 [s1 EXCEPT !.frame = drawn(IF bars THEN drawBars(s1, f.roundDown)
                                            ELSE drawScrollingWave(s1, f.sines))])

-----------------------------------------------------------------------------
\* Audio acquisition

ShouldTap_Always(connected, audioElement, current) == TRUE

ShouldTap_IgnoreConnected(connected, audioElement, current) == audioElement # current

\* if (!isSourceConnected && audioElement !== currentAudioElement) (index.ts 114)
ShouldTap(connected, audioElement, current) ==
    ~connected /\ audioElement # current

TapSequence_StreamFirst(tap) ==
    IF tap.captureOk
    THEN [ok |-> TRUE, kind |-> "stream",
          trace |-> << "call:captureStream", "call:createMediaStreamSource",
                       "log:Connected via captureStream" >>]
    ELSE IF tap.directOk
         THEN [ok |-> TRUE, kind |-> "direct",
               trace |-> << "call:captureStream", "call:createMediaElementSource",
                            "log:Connected via MediaElementSource" >>]
         ELSE [ok |-> FALSE, kind |-> "none",
               trace |-> << "call:captureStream", "call:createMediaElementSource",
                            "error:Failed to hook audio for visualization on this platform" >>]

\* The direct tap, then the stream-capture fallback (index.ts 115-147): whether a
\* source was connected, by which path, and the calls and log lines in order
TapSequence(tap) ==
    IF tap.directOk
    THEN [ok |-> TRUE, kind |-> "direct",
          trace |-> << "call:createMediaElementSource",
                       "log:Connected via MediaElementSource" >>]
    ELSE
      LET head == << "call:createMediaElementSource",
                     "log:MediaElementSource failed, attempting captureStream fallback...",
                     "call:captureStream" >>
      IN  IF tap.captureOk
          THEN [ok |-> TRUE, kind |-> "stream",
                trace |-> head \o << "call:createMediaStreamSource",
                                     "log:Connected via captureStream" >>]
          ELSE [ok |-> FALSE, kind |-> "none",
                trace |-> head \o
                    << "error:Failed to hook audio for visualization on this platform" >>]

\* if (!audioContext) audioContext = new AudioContext() (index.ts 99-102)
createContext(s) ==
    IF s.audioContext = Null
    THEN [s EXCEPT !.audioContext = "ctx", !.ctxCreated = @ + 1]
    ELSE s

createAnalyser_Unguarded(s) ==
    [s EXCEPT !.analyser = "analyser", !.dataArray = ZeroSnapshot, !.analyserCreated = @ + 1]

\* if (!analyser) { analyser = ...; dataArray = new Uint8Array(...) } (index.ts 105-111)
createAnalyser(s) ==
    IF s.analyser = Null
    THEN [s EXCEPT !.analyser = "analyser", !.dataArray = ZeroSnapshot,
                   !.analyserCreated = @ + 1]
    ELSE s

\* The rest of initializeAudioVisualizer once the tap section is done
\* (index.ts 154-168): create the UI, start the animation; an exception of
\* animate is caught by the function's own try (index.ts 169-172). The resume of
\* a suspended context changes nothing the plugin reads
finishInitialize(s, in) ==
    LET start(s1) == IF s1.animationId = "null" THEN animate(s1, in.fr) ELSE s1
    IN  [start(IF s.visualizerContainer = Null THEN createVisualizerUI(s) ELSE s)
           EXCEPT !.threw = FALSE]

noMediaFound_CreatesContext(s) ==
    [createContext(s) EXCEPT !.acq = [outcome |-> "NoMediaFound", trace |-> << >>]]

\* if (!audioElement) { return; } (index.ts 94-96)
noMediaFound(s) ==
    [s EXCEPT !.acq = [outcome |-> "NoMediaFound", trace |-> << >>]]

\* initializeAudioVisualizer (index.ts 90-173)
initializeAudioVisualizer(s, in) ==
    LET audioElement == findAudioElement(s.media)
    IN  IF audioElement = Null
        THEN noMediaFound(s)
        ELSE
          LET s1 == createAnalyser(createContext(s))
          IN  IF ShouldTap(s1.isSourceConnected, audioElement, s1.currentAudioElement)
              THEN
                LET tap == TapSequence(in.tap)
                IN  IF ~tap.ok
                    THEN [s1 EXCEPT !.acq = [outcome |-> "TapFailed", trace |-> tap.trace]]
                    ELSE finishInitialize(
                           [s1 EXCEPT
                              !.audioSource = IF tap.kind = "direct" THEN "elementSource" ELSE @,
                              !.currentAudioElement = audioElement,
                              !.isSourceConnected = TRUE,
                              !.acq = [outcome |-> IF tap.kind = "direct"
                                                   THEN "ConnectedDirect" ELSE "ConnectedStream",
                                       trace |-> tap.trace]],
                           in)
              ELSE finishInitialize(
                     [s1 EXCEPT !.acq = [outcome |-> "NoTap", trace |-> << >>]],
                     in)

-----------------------------------------------------------------------------
\* The lifecycle controller

CompletionFlag_AlwaysReset(flag, ctx, an) == FALSE

\* The reaction to the acquisition promise (index.ts 483-489): the value of
\* hasTriedInitialization it leaves
CompletionFlag(flag, ctx, an) ==
    IF ctx # Null /\ an # Null THEN flag ELSE FALSE

\* Promise reactions run when the task's own code has ended
RunReactions(s) ==
    IF s.thenQueued
    THEN [s EXCEPT !.hasTriedInitialization =
                       CompletionFlag(@, s.audioContext, s.analyser),
                   !.thenQueued = FALSE]
    ELSE s

\* checkCount++, stored up to MaxCheckCount
countCheck(n) == IF n < MaxCheckCount THEN n + 1 ELSE n

\* The history counter of acquisition calls since the last check that saw
\* not-playing, stored up to MaxAttempts
countAttempt(n) == IF n < MaxAttempts THEN n + 1 ELSE n

ResetOnStop_Never(isPlaying, flag) == flag

\* else if (!PlayState.playing && hasTriedInitialization) hasTriedInitialization = false
\* (index.ts 490-493)
ResetOnStop(isPlaying, flag) == IF ~isPlaying /\ flag THEN FALSE ELSE flag

\* The globals (index.ts 44-55) and the host objects they refer to
Globals ==
    { "audioContext", "analyser", "audioSource", "dataArray", "animationId",
      "currentAudioElement", "isSourceConnected",
      "visualizerContainer", "canvas", "canvasContext",
      "pendingFrames", "surfacesInDom", "ctxCreated", "analyserCreated" }

\* The call initializeAudioVisualizer() of index.ts 483, with the history of
\* what it left different from what it found
callInitialize(s, in) ==
    LET returned(r) ==
            [r EXCEPT !.acq = [outcome |-> r.acq.outcome, trace |-> r.acq.trace,
                               effects |-> { g \in Globals : r[g] # s[g] }]]
    IN  returned(initializeAudioVisualizer(s, in))

\* checkAndInitialize (index.ts 474-499)
checkAndInitialize(s, in) ==
    LET s1 == [s EXCEPT !.checkCount = countCheck(@),
                        !.obs = IF s.playing THEN "playing" ELSE "notPlaying",
                        !.episodeAttempts = IF s.playing THEN @ ELSE 0]
        keepAnimating(s2) == IF s2.animationId = "null" THEN animate(s2, in.fr) ELSE s2
    IN  keepAnimating(
          IF s1.playing /\ ~s1.hasTriedInitialization
          THEN [callInitialize(
                   [s1 EXCEPT !.hasTriedInitialization = TRUE,
                              !.episodeAttempts = countAttempt(@)], in)
                EXCEPT !.thenQueued = TRUE]
          ELSE [s1 EXCEPT !.hasTriedInitialization = ResetOnStop(s1.playing, @)])

\* The fast interval's callback (index.ts 502-510)
fastCallback(s, in) ==
    LET slowDown(s1) ==
            IF ~s1.threw /\ s1.checkCount > FastChecks
            THEN [s1 EXCEPT !.fastInterval = FALSE, !.slowInterval = TRUE,
                            !.slowCreated = @ + 1, !.unloads = @ \cup {"clearSlowInterval"}]
            ELSE s1
    IN  slowDown(checkAndInitialize(s, in))

\* observePlayState (index.ts 470-516)
observePlayState(s, in) ==
    checkAndInitialize(
        [s EXCEPT !.hasTriedInitialization = FALSE, !.checkCount = 0,
                  !.episodeAttempts = 0,
                  !.fastInterval = TRUE, !.unloads = @ \cup {"clearFastInterval"}],
        in)

\* The startup timeout's callback (index.ts 523-531)
startupCallback(s, in) ==
    LET observe(s1) == IF s1.threw THEN s1 ELSE observePlayState(s1, in)
    IN  observe(animate(createVisualizerUI([s EXCEPT !.timeoutPending = FALSE]), in.fr))

-----------------------------------------------------------------------------
\* Reconfiguration and shutdown

updateAudioVisualizer_AlwaysAllocates(s) ==
    createVisualizerUI([s EXCEPT !.dataArray = ZeroSnapshot])

\* updateAudioVisualizer (index.ts 433-450)
updateAudioVisualizer(s) ==
    createVisualizerUI(
        IF s.analyser # Null THEN [s EXCEPT !.dataArray = ZeroSnapshot] ELSE s)

\* completeCleanup (index.ts 535-568)
completeCleanup(s) ==
    LET s1 == removeVisualizerUI(cancelAnimation(s))
    IN  [s1 EXCEPT !.audioContext = Null, !.analyser = Null,
                   !.audioSource = Null, !.dataArray = NullArray,
                   !.currentAudioElement = Null, !.isSourceConnected = FALSE]

\* One registered unload handler (index.ts 508, 512, 571)
runUnload(s, handler) ==
    CASE handler = "completeCleanup" -> completeCleanup(s)
      [] handler = "clearFastInterval" -> [s EXCEPT !.fastInterval = FALSE]
      [] OTHER -> [s EXCEPT !.slowInterval = FALSE]

\* The host runs every handler of the unload set, in the order they were added
UnloadOrder == << "completeCleanup", "clearFastInterval", "clearSlowInterval" >>

RECURSIVE runUnloads(_, _)
runUnloads(s, k) ==
    IF k > Len(UnloadOrder) THEN s
    ELSE runUnloads(IF UnloadOrder[k] \in s.unloads THEN runUnload(s, UnloadOrder[k]) ELSE s,
                    k + 1)

-----------------------------------------------------------------------------
\* The state machine

Init ==
    /\ audioContext = Null /\ analyser = Null
    /\ audioSource = Null /\ dataArray = NullArray /\ animationId = "null"
    /\ currentAudioElement = Null /\ isSourceConnected = FALSE
    /\ visualizerContainer = Null /\ canvas = Null /\ canvasContext = Null
    /\ hasTriedInitialization = FALSE /\ checkCount = 0
    /\ fastInterval = FALSE /\ slowInterval = FALSE
    /\ timeoutPending = TRUE /\ pendingFrames = 0
    /\ unloads = {"completeCleanup"} /\ unloaded = FALSE /\ surfacesInDom = 0
    /\ playing \in BOOLEAN /\ media \in MediaStates /\ anchor \in BOOLEAN
    /\ barCount \in BarCounts
    /\ obs = "none" /\ acq = NoAcq /\ frame = NoFrame
    /\ episodeAttempts = 0
    /\ ctxCreated = 0 /\ analyserCreated = 0 /\ slowCreated = 0
    /\ surfaceOps = << >>

\* setTimeout(..., 100) of initialize fires; nothing cancels it
StartupTimeout ==
    /\ timeoutPending
    /\ \E in \in Inputs : Commit(RunReactions(startupCallback(Begin, in)))

\* The 200 ms interval fires
FastTick ==
    /\ fastInterval
    /\ \E in \in CheckInputs : Commit(RunReactions(fastCallback(Begin, in)))

\* The 2 s interval fires
SlowTick ==
    /\ slowInterval
    /\ \E in \in CheckInputs : Commit(RunReactions(checkAndInitialize(Begin, in)))

\* The frames that can run: the one whose handle animationId stores, or one
\* whose handle was overwritten
FiredHandles ==
    (IF animationId = "live" THEN {"stored"} ELSE {})
      \cup (IF pendingFrames > (IF animationId = "live" THEN 1 ELSE 0) THEN {"other"} ELSE {})

\* A requested animation frame runs
Frame ==
    \E handle \in FiredHandles, f \in FrameResults :
        Commit(animate([Begin EXCEPT !.pendingFrames = @ - 1,
                                     !.animationId = IF handle = "stored" THEN "stale" ELSE @],
                       f))

\* The settings panel changes a setting and calls window.updateAudioVisualizer;
\* the panel exists while the plugin is loaded
Reconfigure ==
    /\ ~unloaded
    /\ \E bc \in BarCounts :
          Commit(updateAudioVisualizer([Begin EXCEPT !.barCount = bc]))

\* The host unloads the plugin
Unload ==
    /\ ~unloaded
    /\ Commit(runUnloads([Begin EXCEPT !.unloaded = TRUE], 1))

\* The player starts or stops playing
PlayStateChange ==
    Commit([Begin EXCEPT !.playing = ~playing])

\* The page adds, removes or reorders media elements, or the search field comes or goes
PageChange ==
    \/ \E m \in MediaStates \ {media} : Commit([Begin EXCEPT !.media = m])
    \/ Commit([Begin EXCEPT !.anchor = ~anchor])

Next ==
    \/ StartupTimeout
    \/ FastTick
    \/ SlowTick
    \/ Frame
    \/ Reconfigure
    \/ Unload
    \/ PlayStateChange
    \/ PageChange

Spec == Init /\ [][Next]_vars

-----------------------------------------------------------------------------
\* The render specification: one frame of every configuration, on the states
\* the plugin is in once the startup timeout has created the surface and
\* requested the first frame

\* Before any acquisition (nothing playing, no media element), or with a
\* session connected by the direct tap at the startup's own check
RenderInit ==
    /\ \/ /\ playing = FALSE /\ media = << >>
          /\ audioContext = Null /\ analyser = Null /\ audioSource = Null
          /\ dataArray = NullArray
          /\ currentAudioElement = Null /\ isSourceConnected = FALSE
          /\ hasTriedInitialization = FALSE /\ episodeAttempts = 0
          /\ ctxCreated = 0 /\ analyserCreated = 0
       \/ /\ playing = TRUE /\ media = << "a1" >>
          /\ audioContext = "ctx" /\ analyser = "analyser"
          /\ audioSource = "elementSource" /\ dataArray = ZeroSnapshot
          /\ currentAudioElement = "a1" /\ isSourceConnected = TRUE
          /\ hasTriedInitialization = TRUE /\ episodeAttempts = 1
          /\ ctxCreated = 1 /\ analyserCreated = 1
    /\ anchor = TRUE /\ barCount \in RenderBarCounts
    /\ visualizerContainer = "div" /\ canvas = "canvas" /\ canvasContext = "2d"
    /\ surfacesInDom = 1
    /\ animationId = "live" /\ pendingFrames = 1
    /\ checkCount = 1 /\ fastInterval = TRUE /\ slowInterval = FALSE
    /\ timeoutPending = FALSE
    /\ unloads = {"completeCleanup", "clearFastInterval"} /\ unloaded = FALSE
    /\ obs = "none" /\ acq = NoAcq /\ frame = NoFrame /\ surfaceOps = << >>
    /\ slowCreated = 0

\* The requested frame runs
RenderFrame ==
    /\ animationId = "live"
    /\ frame.branch = "none"
    /\ \E f \in RenderFrameInputs :
          Commit(animate([Begin EXCEPT !.pendingFrames = @ - 1, !.animationId = "stale"], f))

RenderNext == RenderFrame

RenderSpec == RenderInit /\ [][RenderNext]_vars

-----------------------------------------------------------------------------
\* Properties

\* The calls of an acquisition's trace that try to connect a source
TapCalls(trace) ==
    { i \in DOMAIN trace :
        trace[i] \in {"call:createMediaElementSource", "call:captureStream",
                      "call:createMediaStreamSource"} }

\* The last step ran initializeAudioVisualizer
Acquired == acq.outcome # "none"

\* C1 (as stated): between two checks that observe not-playing (or from startup
\* to the first one), the first check that observes playing invokes the
\* acquisition routine and it is invoked at most once, whatever the outcome.
C1_OncePerTransition ==
    /\ obs = "playing" => episodeAttempts >= 1
    /\ episodeAttempts <= 1

\* C1 (amended): the first check that observes playing after a check that
\* observed not-playing (or after startup) invokes the acquisition routine, and
\* it is invoked again before the next not-playing observation only when the
\* preceding attempts left no analysis context and node, i.e. found no media
\* element; after an attempt that found one it is not invoked again.
C1_OncePerTransitionOnceMediaFound ==
    /\ [](obs = "playing" => episodeAttempts >= 1)
    /\ [][(Acquired' /\ episodeAttempts >= 1) => (audioContext = Null /\ analyser = Null)]_vars

\* C1 witness: a second acquisition call within one playing episode
C1_Witness == Acquired /\ episodeAttempts = 2

\* C2: an attempt whose direct tap and fallback both fail leaves the connected
\* flag false and no handle recorded; the first check that observes playing
\* after a check that observed not-playing invokes acquisition again, and an
\* acquisition that finds an element while unconnected tries the direct tap.
C2_TapFailureLeavesUnconnectedAndRetries ==
    /\ [](acq.outcome = "TapFailed" =>
            (~isSourceConnected /\ currentAudioElement = Null))
    /\ [][(obs' = "playing" /\ episodeAttempts = 0) => Acquired']_vars
    /\ [][(Acquired' /\ ~isSourceConnected /\ findAudioElement(media) # Null) =>
            (/\ acq'.outcome \in {"TapFailed", "ConnectedDirect", "ConnectedStream"}
             /\ acq'.trace[1] = "call:createMediaElementSource")]_vars

\* C2 witness: a tap failure in a call that ran no frame, with a sampled
\* snapshot in the buffer: the analysis node, which only an acquisition that
\* found an element creates, existed before this call, so an earlier attempt had
\* failed to tap and this one, after a not-playing observation, tapped again
C2_Witness ==
    /\ acq.outcome = "TapFailed"
    /\ frame.branch = "none"
    /\ dataArray \notin {NullArray, ZeroSnapshot}

\* C3: whenever an acquisition attempt completes without a connected analysis
\* path (no media element found, or both taps failed), hasTriedInitialization is
\* false once the completion handler has run.
C3_FailureResetsFlag ==
    acq.outcome \in {"NoMediaFound", "TapFailed"} => ~hasTriedInitialization

\* C4: an acquisition call made while the path is connected attempts no direct
\* tap and no stream capture and leaves the connected flag and the recorded
\* handle unchanged.
C4_IdempotentOnceConnected ==
    [][(isSourceConnected /\ Acquired') =>
         (/\ TapCalls(acq'.trace) = {}
          /\ isSourceConnected'
          /\ currentAudioElement' = currentAudioElement)]_vars

\* C4 witness: a call that found the element already recorded as the handle
C4_Witness ==
    /\ acq.outcome = "NoTap"
    /\ isSourceConnected
    /\ findAudioElement(media) = currentAudioElement

\* C5: within one acquisition call stream capture is attempted only after the
\* direct tap has been attempted and has failed; when the fallback connects, the
\* call ends connected with the element found recorded as the handle, and the
\* log holds the fallback.
C5_FallbackAfterDirectTap ==
    /\ \A i \in DOMAIN acq.trace :
          acq.trace[i] = "call:captureStream" =>
             /\ i >= 3
             /\ acq.trace[i - 2] = "call:createMediaElementSource"
             /\ acq.trace[i - 1] =
                   "log:MediaElementSource failed, attempting captureStream fallback..."
    /\ \A i \in DOMAIN acq.trace :
          acq.trace[i] = "log:Connected via captureStream" =>
             /\ isSourceConnected
             /\ currentAudioElement = findAudioElement(media)
             /\ currentAudioElement # Null
             /\ \E j \in 1..(i - 1) :
                   acq.trace[j] =
                      "log:MediaElementSource failed, attempting captureStream fallback..."

\* C5 witness: the direct tap failed and the fallback connected
C5_Witness ==
    /\ acq.outcome = "ConnectedStream"
    /\ isSourceConnected
    /\ audioSource = Null

\* C6: once the connected flag is true, it stays true and the recorded handle
\* does not change in any step other than the unload.
C6_ConnectedUntilShutdown ==
    [][(isSourceConnected /\ unloaded' = unloaded) =>
         (isSourceConnected' /\ currentAudioElement' = currentAudioElement)]_vars

\* C6 witness: an acquisition call that found another element than the handle
C6_Witness ==
    /\ acq.outcome = "NoTap"
    /\ isSourceConnected
    /\ findAudioElement(media) \notin {Null, currentAudioElement}

\* C7: after the unload no timer callback and no animation frame runs: no poll
\* check, no acquisition, no frame, no timer active, no frame pending, and the
\* surface stays torn down.
C7_NothingRunsAfterShutdown ==
    unloaded =>
       /\ obs = "none" /\ ~Acquired /\ frame.branch = "none"
       /\ ~fastInterval /\ ~slowInterval /\ pendingFrames = 0
       /\ visualizerContainer = Null

\* C8: a frame whose sampling or drawing throws still schedules the next frame:
\* while a surface exists and the plugin is not unloaded, a frame is pending
\* after it.
C8_BadFrameStillSchedules ==
    (frame.branch = "threw" /\ canvas # Null /\ ~unloaded) => pendingFrames >= 1

\* C9: at most one AudioContext and at most one AnalyserNode are ever created,
\* and a call that connects by direct tap leaves exactly one analysis node
\* created.
C9_OneContextOneAnalyser ==
    /\ ctxCreated <= 1
    /\ analyserCreated <= 1
    /\ acq.outcome = "ConnectedDirect" => (analyserCreated = 1 /\ analyser # Null)

\* C9 witness: a direct-tap connection by a later call than the one that
\* created the analysis node
C9_Witness ==
    /\ acq.outcome = "ConnectedDirect"
    /\ frame.branch = "none"
    /\ dataArray \notin {NullArray, ZeroSnapshot}

\* C10: a frame that draws draws the frequency bars exactly when a sampler is
\* attached and the mean of the 256 bins is above 5 (their sum above 5 * 256),
\* and the idle wave otherwise.
C10_SilenceDrivesFrame ==
    frame.branch \in {"bars", "wave"} =>
       (frame.branch = "bars" <=>
          /\ analyser # Null
          /\ dataArray # NullArray
          /\ ReduceSum(dataArray, 0, 256) > 5 * 256)

\* C10 witness: a sampled snapshot whose mean is exactly 5 drew the idle wave
C10_Witness ==
    /\ frame.branch = "wave"
    /\ analyser # Null
    /\ DOMAIN dataArray = 0..255
    /\ \A i \in 0..255 : dataArray[i] = 5

\* C14: every reconfigure removes the existing surface before it creates the
\* new one: at most one visualizer container is in the document, it is the one
\* the plugin refers to, the container and canvas references are set and
\* cleared together, and a step that inserts a container while one exists has
\* removed that one first.
C14_ReconfigureKeepsOneSurface ==
    /\ [](/\ surfacesInDom <= 1
          /\ surfacesInDom = (IF visualizerContainer # Null THEN 1 ELSE 0)
          /\ (visualizerContainer = Null) <=> (canvas = Null))
    /\ [][(visualizerContainer # Null /\ \E i \in DOMAIN surfaceOps' : surfaceOps'[i] = "create")
            => surfaceOps'[1] = "remove"]_vars

\* C14 witness: a reconfigure (a step with no poll check and no frame) that
\* removed the existing surface and created a new one
C14_Witness ==
    /\ surfaceOps = << "remove", "create" >>
    /\ obs = "none" /\ frame.branch = "none"
    /\ surfacesInDom = 1

\* C12: the checks run on the fast timer until checkCount has exceeded 10; from
\* then on the fast timer is cancelled and the slow timer, the only one ever
\* created, is active until the unload; the two timers are never both active.
C12_PollingBackoff ==
    /\ slowCreated <= 1
    /\ ~(fastInterval /\ slowInterval)
    /\ checkCount > FastChecks =>
          /\ ~fastInterval
          /\ slowCreated = 1
          /\ slowInterval \/ unloaded
    /\ checkCount <= FastChecks => (~slowInterval /\ slowCreated = 0)

\* C13: a frame that finds no surface draws nothing and leaves no frame
\* pending, and after every poll check that leaves a surface in place a frame
\* is pending (so the frames resume once a surface is back).
C13_LoopRestartedByPolling ==
    /\ frame.branch = "noSurface" => (frame.calls = 0 /\ pendingFrames = 0)
    /\ (obs # "none" /\ canvas # Null) => pendingFrames >= 1

\* C17: at most one animation frame is pending, and animationId is non-null
\* exactly when one is.
C17_SingleRenderLoop ==
    /\ pendingFrames <= 1
    /\ (animationId # "null") <=> (pendingFrames = 1)

\* C18: an acquisition call that finds no media element leaves every global
\* and host object as it found them (no context, no analysis node, connected
\* flag, handle, surface and frame state unchanged, no UI, no animation) and
\* makes no tap attempt.
C18_NoMediaFoundChangesNothing ==
    acq.outcome = "NoMediaFound" =>
       /\ acq.effects = {}
       /\ TapCalls(acq.trace) = {}

\* C18 witness: a call that found no media element, in a check that afterwards
\* started the idle wave on an existing surface
C18_Witness ==
    /\ acq.outcome = "NoMediaFound"
    /\ findAudioElement(media) = Null
    /\ visualizerContainer # Null
    /\ frame.branch = "wave"

\* C19: the connected flag is true exactly when a media handle is recorded; a
\* connected path has an analysis context and an analysis node; the snapshot
\* buffer exists exactly when the analysis node exists, and then has 256 bins.
C19_AudioSessionConsistent ==
    /\ isSourceConnected <=> (currentAudioElement # Null)
    /\ isSourceConnected => (audioContext # Null /\ analyser # Null)
    /\ (dataArray # NullArray) <=> (analyser # Null)
    /\ dataArray # NullArray => DOMAIN dataArray = 0..255

\* C19 witness: a reconfigure of a connected session, which replaced the
\* snapshot buffer and recreated the surface
C19_Witness ==
    /\ isSourceConnected
    /\ ~unloaded
    /\ obs = "none" /\ frame.branch = "none"
    /\ surfaceOps = << "remove", "create" >>
    /\ dataArray = ZeroSnapshot

\* The frame of the last step drew
Drew == frame.branch \in {"bars", "wave"}

\* C11: for every bar count >= 1 and every snapshot, a frame on an existing
\* surface issues exactly barCount draw calls, one per bar, in the bars branch
\* as in the idle-wave branch, each with a height that is not negative.
C11_OneCallPerBar ==
    Drew =>
       /\ frame.calls = barCount
       /\ Len(frame.rects) = barCount
       /\ \A k \in DOMAIN frame.rects :
             /\ frame.rects[k].i = k - 1
             /\ RatLeq(Whole(0), frame.rects[k].height)

\* C11 witness: a bars frame of 50 bars of which the lower bins are silent
C11_Witness ==
    /\ frame.branch = "bars"
    /\ barCount = 50
    /\ Len(frame.rects) = 50
    /\ frame.rects[1].height = Whole(0)

\* The byte magnitude a bar of the last frame read
ValueOf(r) == dataArray[r.dataIndex]

\* C15 (as stated): for every byte magnitude and every idle-wave phase the
\* height of each drawn bar lies between 0 and the surface height, and an
\* idle-wave bar is at least 2 px high.
C15_HeightsWithinSurface ==
    Drew =>
       \A k \in DOMAIN frame.rects :
          /\ RatLeq(Whole(0), frame.rects[k].height)
          /\ RatLeq(frame.rects[k].height, Whole(CanvasHeight))
          /\ frame.branch = "wave" => RatLeq(Whole(2), frame.rects[k].height)

\* C15 (amended): a bar of the bars branch is between 0 and 1.5 times the
\* surface height high, and it is higher than the surface exactly when its
\* magnitude times 1.5 is above 255 (a magnitude above 170); an idle-wave bar
\* is at least 2 px and at most the surface height high.
C15_HeightsWithinSensitivityRange ==
    Drew =>
       \A k \in DOMAIN frame.rects :
          /\ RatLeq(Whole(0), frame.rects[k].height)
          /\ frame.branch = "bars" =>
                /\ RatLeq(frame.rects[k].height, RatMul(Whole(CanvasHeight), Sensitivity))
                /\ RatLess(Whole(CanvasHeight), frame.rects[k].height)
                      <=> ValueOf(frame.rects[k]) > 170
          /\ frame.branch = "wave" =>
                /\ RatLeq(Whole(2), frame.rects[k].height)
                /\ RatLeq(frame.rects[k].height, Whole(CanvasHeight))

\* C15 witness: a bar of magnitude 255, 60 px high on the 40 px surface
C15_Witness ==
    /\ frame.branch = "bars"
    /\ \E k \in DOMAIN frame.rects :
          /\ ValueOf(frame.rects[k]) = 255
          /\ frame.rects[k].height = Whole(60)

\* C16: for every bar count that divides the surface width, bar i is drawn at
\* x = i * (width / barCount) with width (width / barCount) - 1, consecutive
\* bars do not overlap, the last bar ends at width - 1, and with 50 bars on the
\* 200 px surface every bar is 3 px wide.
C16_BarGeometry ==
    (Drew /\ CanvasWidth % barCount = 0) =>
       LET w == CanvasWidth \div barCount
           rects == frame.rects
       IN  /\ \A k \in DOMAIN rects :
                 /\ rects[k].x = Whole((k - 1) * w)
                 /\ rects[k].width = Whole(w - 1)
                 /\ (barCount = 50 /\ CanvasWidth = 200) => rects[k].width = Whole(3)
           /\ \A k \in 1..(Len(rects) - 1) :
                 RatLess(RatAdd(rects[k].x, rects[k].width), rects[k + 1].x)
           /\ RatAdd(rects[Len(rects)].x, rects[Len(rects)].width) = Whole(CanvasWidth - 1)

\* C16 witness: the idle wave with 50 bars, the last of them at x = 196
C16_Witness ==
    /\ frame.branch = "wave"
    /\ barCount = 50
    /\ frame.rects[50].x = Whole(196)
    /\ frame.rects[50].width = Whole(3)

\* C20: for every bar count >= 1, also above the number of bins, the bin that
\* bar i reads is the floor of i * 256 / barCount (up to the rounding of the
\* double product), lies in 0..255, does not decrease with i, and bar 0 reads
\* bin 0.
C20_BucketIndexInBounds ==
    frame.branch = "bars" =>
       LET rects == frame.rects
       IN  /\ \A k \in DOMAIN rects :
                 /\ rects[k].dataIndex \in 0..255
                 /\ rects[k].dataIndex * barCount <= (k - 1) * 256
                 /\ (k - 1) * 256 <= (rects[k].dataIndex + 1) * barCount
           /\ \A k \in 1..(Len(rects) - 1) : rects[k].dataIndex <= rects[k + 1].dataIndex
           /\ rects[1].dataIndex = 0

\* C20 witness: 300 bars on 256 bins, the last bar reading bin 255 and two
\* neighbours reading the same bin
C20_Witness ==
    /\ frame.branch = "bars"
    /\ barCount = 300
    /\ frame.rects[300].dataIndex = 255
    /\ frame.rects[2].dataIndex = frame.rects[1].dataIndex

=============================================================================
